---- MODULE Spec2Model ----
(***************************************************************************)
(* A model of chrisarmitage/go-data-structures: the thread-safe Set        *)
(* (src/set/set.go) and the FIFO Queue (src/unnamed/part_001).             *)
(*                                                                         *)
(* ConcSpec     : goroutines t1..t3 calling the Set's methods on two       *)
(*                shared instances A and B, one step per lock call, map    *)
(*                access and loop iteration.                               *)
(* DeadlockSpec : the same steps with four goroutines.                     *)
(* AlgSpec      : one caller; Intersect, Union and Difference of a and b   *)
(*                into result variables, and mutators on all of them.      *)
(* SeqSpec      : one caller; every unary method on one Set, call by call. *)
(* QueueSpec    : one caller; every method of one Queue[T], call by call,  *)
(*                for each element type T the callers use.                 *)
(***************************************************************************)
EXTENDS Integers, FiniteSets, Sequences, TLC

\* ------------------------------------------------------------------ bounds
\* The element domain of the concurrent runs (T of Set[T]).
MaxConcElem == 1

ConcElem == 1..MaxConcElem

\* The element domain of AlgSpec.
MaxAlgElem == 2

AlgElem == 1..MaxAlgElem

\* The element domain of SeqSpec.
MaxElem == 3

Elem == 1..MaxElem

\* The effective Add calls SeqSpec counts between two Clear calls.
MaxAdds == 4

\* The values of the Queue's element type, beside its zero value 0.
MaxQElem == 3

QElem == 1..MaxQElem

\* The Enqueue calls of one run of QueueSpec.
MaxEnq == 3

\* The goroutines of the concurrent runs.
Threads == {"t1", "t2", "t3", "t4"}

\* The two shared Set instances.
Sets == {"A", "B"}

\* The Set objects of the heap: A, B and the objects NewSet makes for the
\* caller's two result variables.
Objs == {"A", "B", "R1", "R2"}

\* The caller's variables of type *Set: the operands and the results.
OperandVars == {"a", "b"}

ResultVars == {"r1", "r2"}

None == "none"

WriteOps == {"Add", "Remove", "Clear"}

ReadOps == {"Contains", "Size", "Members"}

BinOps == {"Intersect", "Union", "Difference"}

\* What each goroutine calls in ConcSpec: t1 the read-only and the binary
\* operations, t2 the read-only operations and the mutators, t3 the mutators.
ConcMenu(t) ==
  CASE t = "t1" -> ReadOps \cup BinOps
    [] t = "t2" -> ReadOps \cup WriteOps
    [] t = "t3" -> WriteOps
    [] OTHER -> {}

\* What each goroutine calls in DeadlockSpec: t1 and t2 the read-only and
\* the binary operations, t3 and t4 the mutators.
DeadlockMenu(t) == IF t \in {"t1", "t2"} THEN ReadOps \cup BinOps ELSE WriteOps

VARIABLES
  members,   \* members[o]: the keys of o.members
  rheld,     \* rheld[s][t]: read locks of s.mu goroutine t holds
  wowner,    \* wowner[s]: the goroutine whose s.mu.Lock() is pending or held
  wheld,     \* wheld[s]: that goroutine's Lock() has returned
  pc,        \* pc[t]: where goroutine t is in its current call
  call,      \* call[t]: the call in progress: [op, s, o, x]
  seen,      \* seen[t]: the keys the current range loop has visited
  res,       \* res[t]: the locals of t's call that hold its return value
  pre,       \* pre[t]: the contents s had when t's Lock() returned
  ref,       \* ref[v]: the Set object the caller's variable v points to
  origin,    \* origin[r]: the call that made r's object, while r and the
             \*            call's operands are as that call left them
  via,       \* whether the caller's last call was made on an operand
             \*            variable ("operand") or on or into a result
             \*            variable ("result")
  last,      \* the caller's last call on one Set: [op, x, ret]
  repeated,  \* the last call repeated the call before it
  found,     \* the contents the last call found in the Set
  prev,      \* the call before the last: [op, found]
  added,     \* the distinct elements added since the last Clear
  removed,   \* the distinct elements removed while present since then
  nAdded,    \* the Add calls since then that found their element absent
  nRemoved,  \* the Remove calls since then that found theirs present
  elements,           \* q.elements: the slice [nil, vals, cap, held]
  preventDuplicates,  \* q.preventDuplicates
  equalsFunc,         \* q.equalsFunc
  elemType,  \* the type argument T of the Queue[T]
  qlast,     \* the caller's last call on the Queue and what it returned
  enq,       \* the values Enqueue was called with, in call order
  deq        \* the values Dequeue returned with true, in call order

concVars == <<rheld, wowner, wheld, pc, call, seen, res, pre>>

algVars == <<ref, origin, via>>

seqVars == <<last, repeated, found, prev, added, removed, nAdded, nRemoved>>

queueVars == <<elements, preventDuplicates, equalsFunc, elemType, qlast, enq, deq>>

vars == <<members, concVars, algVars, seqVars, queueVars>>

NoCall == [op |-> None, s |-> None, o |-> None, x |-> 0]

\* The locals a call computes its return value in: result (a binary
\* operation's new Set), members (Members' slice), exists, len(s.members).
NoRes == [set |-> {}, slice |-> <<>>, exists |-> FALSE, size |-> 0]

\* ------------------------------------------------------- sync.RWMutex
\* RLock returns at once unless a writer's Lock is pending or held.
CanRLock(s) == wowner[s] = None

\* Lock first takes the writers' mutex rw.w ...
CanAnnounce(s) == wowner[s] = None

\* ... and then waits for the readers that hold the lock to leave.
ReadersDrained(s) == \A t \in Threads : rheld[s][t] = 0

RLock(s, t) == rheld' = [rheld EXCEPT ![s][t] = @ + 1]

RUnlock(s, t) == rheld' = [rheld EXCEPT ![s][t] = @ - 1]

\* ------------------------------------------------------- the map accesses
\* Mutant of AddMember: the key is flipped, deleted when it is present.
AddMemberToggled(m, x) == IF x \in m THEN m \ {x} ELSE m \cup {x}

\* s.members[member] = struct{}{}
AddMember(m, x) == m \cup {x}

\* Mutant of RemoveMember: the key is left in the map.
RemoveMemberKept(m, x) == m

\* delete(s.members, member)
RemoveMember(m, x) == m \ {x}

\* Mutant of ClearMembers: the new map is made and dropped, `s.members` is
\* left as it was.
ClearMembersDropped(m) == m

\* s.members = make(map[T]struct{})
ClearMembers(m) == {}

WriteEffect(op, m, x) ==
  CASE op = "Add" -> AddMember(m, x)
    [] op = "Remove" -> RemoveMember(m, x)
    [] op = "Clear" -> ClearMembers(m)

ContainsMember(m, x) == x \in m

SizeOf(m) == Cardinality(m)

\* make([]T, 0, n): a slice of length 0.
\* Mutant of MakeSlice: make([]T, n), n zero values before the appends.
MakeSliceOfLength(n) == [i \in 1..n |-> 0]

MakeSlice(n) == <<>>

\* ------------------------------------------------------------------ Init
NoOrigin == [op |-> None, s |-> None, o |-> None]

NoLast == [op |-> None, x |-> 0, exists |-> FALSE, size |-> 0, slice |-> <<>>]

NoPrev == [op |-> None, found |-> {}]

\* NewSet: an empty map.
NewSet == {}

\* The caller's state before its first call: a := NewSet(), b := NewSet().
CallerInit ==
  /\ ref = [v \in OperandVars \cup ResultVars |->
              CASE v = "a" -> "A" [] v = "b" -> "B" [] OTHER -> None]
  /\ origin = [r \in ResultVars |-> NoOrigin]
  /\ via = None
  /\ last = NoLast
  /\ repeated = FALSE
  /\ found = {}
  /\ prev = NoPrev
  /\ added = {}
  /\ removed = {}
  /\ nAdded = 0
  /\ nRemoved = 0

IdleInit ==
  /\ rheld = [s \in Sets |-> [t \in Threads |-> 0]]
  /\ wowner = [s \in Sets |-> None]
  /\ wheld = [s \in Sets |-> FALSE]
  /\ pc = [t \in Threads |-> "idle"]
  /\ call = [t \in Threads |-> NoCall]
  /\ seen = [t \in Threads |-> {}]
  /\ res = [t \in Threads |-> NoRes]
  /\ pre = [t \in Threads |-> {}]

\* ------------------------------------------------------- the Go slice
\* A slice of the Queue: nil or not, its elements, its capacity, and the
\* slots of its backing array that lie before its first element (the
\* values `q.elements[1:]` left behind, which the array keeps alive).
NilSlice == [nil |-> TRUE, vals |-> <<>>, cap |-> 0, held |-> 0]

\* make([]T, 0)
MakeEmptySlice == [nil |-> FALSE, vals |-> <<>>, cap |-> 0, held |-> 0]

\* The capacity append gives the new backing array of a full slice of
\* capacity c: 1 after 0, then twice the old one.
GrowCap(c) == IF c = 0 THEN 1 ELSE 2 * c

\* append(q.elements, element): in place while there is capacity left,
\* into a new backing array otherwise.
AppendSlice(sl, e) ==
  IF Len(sl.vals) < sl.cap
  THEN [sl EXCEPT !.vals = Append(@, e)]
  ELSE [nil |-> FALSE, vals |-> Append(sl.vals, e), cap |-> GrowCap(sl.cap), held |-> 0]

\* Mutant of SliceFrom1: q.elements[:len(q.elements)-1], the back is cut.
SliceToLast(sl) ==
  [sl EXCEPT !.vals = SubSeq(@, 1, Len(@) - 1)]

\* q.elements[1:]
SliceFrom1(sl) ==
  [sl EXCEPT !.vals = Tail(@), !.cap = @ - 1, !.held = @ + 1]

\* ------------------------------------------------------- the Queue's type
\* The element types the callers instantiate Queue[T] with (int,
\* ContactUser, any) and a slice type, whose values Go cannot compare.
ElemTypes == {"int", "ContactUser", "any", "[]int"}

\* `var t T`: the zero value; for T = any it is the nil interface.
ZeroValue == 0

\* reflect.ValueOf(t).Kind() for the zero value t of T.  ValueOf of a nil
\* interface is the zero Value, whose Kind is Invalid.
KindOfZero(T) ==
  CASE T = "int" -> "Int"
    [] T = "ContactUser" -> "Struct"
    [] T = "any" -> "Invalid"
    [] T = "[]int" -> "Slice"

\* The kinds of the fields of a struct type: ContactUser{Email string}.
FieldKinds(T) == IF T = "ContactUser" THEN {"String"} ELSE {}

\* reflect.Value.Comparable of a value of kind k: true of the zero Value,
\* false of a func, a map and a slice, of a struct what it is of all the
\* fields, true of the other kinds.
KindComparable(k, fields) ==
  CASE k = "Invalid" -> TRUE
    [] k \in {"Func", "Map", "Slice"} -> FALSE
    [] k = "Struct" -> \A f \in fields : f \notin {"Func", "Map", "Slice"}
    [] OTHER -> TRUE

\* `v := reflect.ValueOf(t); v.Comparable()`
Comparable(T) == KindComparable(KindOfZero(T), FieldKinds(T))

\* The functions the callers pass to PreventDuplicates: equal values,
\* equal Email fields (here: equal parity, so that two different values
\* can be equivalent), and the test's `return false`.
EqualsFuncs == {"sameValue", "sameEmail", "neverEqual"}

\* q.equalsFunc(a, b)
Equals(f, a, b) ==
  CASE f = "sameValue" -> a = b
    [] f = "sameEmail" -> a % 2 = b % 2
    [] f = "neverEqual" -> FALSE

\* The caller's last call on the Queue: the method, its argument (x or f),
\* the length of the queue it found (before), and what it returned.
NoQLast ==
  [op |-> None, x |-> 0, f |-> None, before |-> 0,
   val |-> 0, ok |-> FALSE, n |-> 0, err |-> FALSE]

\* NewQueue[T](): an empty, non-nil slice; the flag and the function have
\* their zero values.
NewQueue(T) ==
  /\ elemType = T
  /\ elements = MakeEmptySlice
  /\ preventDuplicates = FALSE
  /\ equalsFunc = None
  /\ qlast = NoQLast
  /\ enq = <<>>
  /\ deq = <<>>

ConcInit ==
  /\ members = [o \in Objs |-> NewSet]
  /\ CallerInit
  /\ IdleInit
  /\ NewQueue("int")

\* ------------------------------------------------- Add / Remove / Clear
\* Mutant of WriteCall: the mutator takes s.mu.RLock() where the code takes
\* s.mu.Lock().
WriteCallWithRLock(t, op, s, x) ==
  /\ pc[t] = "idle"
  /\ CanRLock(s)
  /\ RLock(s, t)
  /\ call' = [call EXCEPT ![t] = [op |-> op, s |-> s, o |-> None, x |-> x]]
  /\ pre' = [pre EXCEPT ![t] = members[s]]
  /\ pc' = [pc EXCEPT ![t] = "wbody"]
  /\ UNCHANGED <<queueVars, algVars, seqVars, members, wowner, wheld, seen, res>>

\* s.mu.Lock() is called: the writer takes rw.w and from now on stops new
\* readers; it still has to wait for the readers inside.
WriteCall(t, op, s, x) ==
  /\ pc[t] = "idle"
  /\ CanAnnounce(s)
  /\ wowner' = [wowner EXCEPT ![s] = t]
  /\ call' = [call EXCEPT ![t] = [op |-> op, s |-> s, o |-> None, x |-> x]]
  /\ pc' = [pc EXCEPT ![t] = "wwait"]
  /\ UNCHANGED <<queueVars, algVars, seqVars, members, rheld, wheld, seen, res, pre>>

\* s.mu.Lock() returns.
WriteAcquire(t) ==
  /\ pc[t] = "wwait"
  /\ wowner[call[t].s] = t
  /\ ReadersDrained(call[t].s)
  /\ wheld' = [wheld EXCEPT ![call[t].s] = TRUE]
  /\ pre' = [pre EXCEPT ![t] = members[call[t].s]]
  /\ pc' = [pc EXCEPT ![t] = "wbody"]
  /\ UNCHANGED <<queueVars, algVars, seqVars, members, rheld, wowner, call, seen, res>>

\* The body: s.members[member] = struct{}{} / delete / make.
WriteBody(t) ==
  /\ pc[t] = "wbody"
  /\ members' = [members EXCEPT ![call[t].s] = WriteEffect(call[t].op, @, call[t].x)]
  /\ pc' = [pc EXCEPT ![t] = "wret"]
  /\ UNCHANGED <<queueVars, algVars, seqVars, rheld, wowner, wheld, call, seen, res, pre>>

\* The deferred s.mu.Unlock(), and the return.
WriteReturn(t) ==
  /\ pc[t] = "wret"
  /\ wowner' = [wowner EXCEPT ![call[t].s] = None]
  /\ wheld' = [wheld EXCEPT ![call[t].s] = FALSE]
  /\ pc' = [pc EXCEPT ![t] = "idle"]
  /\ call' = [call EXCEPT ![t] = NoCall]
  /\ pre' = [pre EXCEPT ![t] = {}]
  /\ UNCHANGED <<queueVars, algVars, seqVars, members, rheld, seen, res>>

\* --------------------------------------------- Contains / Size / Members
\* Mutant of ReadCall: the read-only operation starts without s.mu.RLock().
ReadCallWithoutLock(t, op, s, x) ==
  /\ pc[t] = "idle"
  /\ call' = [call EXCEPT ![t] = [op |-> op, s |-> s, o |-> None, x |-> x]]
  /\ pc' = [pc EXCEPT ![t] = IF op = "Members" THEN "mloop" ELSE "rbody"]
  /\ res' = [res EXCEPT ![t] = [NoRes EXCEPT !.slice = MakeSlice(SizeOf(members[s]))]]
  /\ seen' = [seen EXCEPT ![t] = {}]
  /\ UNCHANGED <<queueVars, algVars, seqVars, members, rheld, wowner, wheld, pre>>

\* s.mu.RLock() of a read-only operation.
ReadCall(t, op, s, x) ==
  /\ pc[t] = "idle"
  /\ CanRLock(s)
  /\ RLock(s, t)
  /\ call' = [call EXCEPT ![t] = [op |-> op, s |-> s, o |-> None, x |-> x]]
  /\ pc' = [pc EXCEPT ![t] = IF op = "Members" THEN "mloop" ELSE "rbody"]
  /\ res' = [res EXCEPT ![t] = [NoRes EXCEPT !.slice = MakeSlice(SizeOf(members[s]))]]
  /\ seen' = [seen EXCEPT ![t] = {}]
  /\ UNCHANGED <<queueVars, algVars, seqVars, members, wowner, wheld, pre>>

\* The body of Contains and of Size.
ReadBody(t) ==
  /\ pc[t] = "rbody"
  /\ res' = [res EXCEPT ![t] =
               IF call[t].op = "Contains"
               THEN [@ EXCEPT !.exists = ContainsMember(members[call[t].s], call[t].x)]
               ELSE [@ EXCEPT !.size = SizeOf(members[call[t].s])]]
  /\ pc' = [pc EXCEPT ![t] = "rret"]
  /\ UNCHANGED <<queueVars, algVars, seqVars, members, rheld, wowner, wheld, call, seen, pre>>

\* One iteration of Members' range loop, in the map's own order.
MembersLoop(t) ==
  /\ pc[t] = "mloop"
  /\ \E m \in members[call[t].s] \ seen[t] :
       /\ res' = [res EXCEPT ![t].slice = Append(@, m)]
       /\ seen' = [seen EXCEPT ![t] = @ \cup {m}]
  /\ UNCHANGED <<queueVars, algVars, seqVars, members, rheld, wowner, wheld, pc, call, pre>>

MembersLoopEnd(t) ==
  /\ pc[t] = "mloop"
  /\ members[call[t].s] \ seen[t] = {}
  /\ pc' = [pc EXCEPT ![t] = "rret"]
  /\ UNCHANGED <<queueVars, algVars, seqVars, members, rheld, wowner, wheld, call, seen, res, pre>>

\* The deferred s.mu.RUnlock(), and the return.
ReadReturn(t) ==
  /\ pc[t] = "rret"
  /\ RUnlock(call[t].s, t)
  /\ pc' = [pc EXCEPT ![t] = "idle"]
  /\ call' = [call EXCEPT ![t] = NoCall]
  /\ res' = [res EXCEPT ![t] = NoRes]
  /\ seen' = [seen EXCEPT ![t] = {}]
  /\ UNCHANGED <<queueVars, algVars, seqVars, members, wowner, wheld, pre>>

\* ------------------------------------------ Intersect / Union / Difference
\* result := NewSet[T](); s.mu.RLock().
BinCall(t, op, s, o) ==
  /\ pc[t] = "idle"
  /\ CanRLock(s)
  /\ RLock(s, t)
  /\ call' = [call EXCEPT ![t] = [op |-> op, s |-> s, o |-> o, x |-> 0]]
  /\ res' = [res EXCEPT ![t] = [NoRes EXCEPT !.set = NewSet]]
  /\ seen' = [seen EXCEPT ![t] = {}]
  /\ pc' = [pc EXCEPT ![t] = "rlock2"]
  /\ UNCHANGED <<queueVars, algVars, seqVars, members, wowner, wheld, pre>>

\* Mutant of BinLockOther: the loops start without other.mu.RLock().
BinLockOtherSkipped(t) ==
  /\ pc[t] = "rlock2"
  /\ pc' = [pc EXCEPT ![t] = "loop1"]
  /\ UNCHANGED <<queueVars, algVars, seqVars, members, rheld, wowner, wheld, call, seen, res, pre>>

\* Mutant of BinLockOther: other.mu.RLock() is left out when other is s.
BinLockOtherUnlessSelf(t) ==
  /\ pc[t] = "rlock2"
  /\ call[t].o # call[t].s => CanRLock(call[t].o)
  /\ rheld' = IF call[t].o # call[t].s
              THEN [rheld EXCEPT ![call[t].o][t] = @ + 1]
              ELSE rheld
  /\ pc' = [pc EXCEPT ![t] = "loop1"]
  /\ UNCHANGED <<queueVars, algVars, seqVars, members, wowner, wheld, call, seen, res, pre>>

\* other.mu.RLock().
BinLockOther(t) ==
  /\ pc[t] = "rlock2"
  /\ CanRLock(call[t].o)
  /\ RLock(call[t].o, t)
  /\ pc' = [pc EXCEPT ![t] = "loop1"]
  /\ UNCHANGED <<queueVars, algVars, seqVars, members, wowner, wheld, call, seen, res, pre>>

\* Mutant of LoopBody: Difference keeps the members other holds (`exists`
\* where the code tests `!exists`).
LoopBodyUnnegated(op, r, m, other) ==
  CASE op = "Intersect" -> IF ContainsMember(other, m) THEN AddMember(r, m) ELSE r
    [] op = "Union" -> AddMember(r, m)
    [] op = "Difference" -> IF ContainsMember(other, m) THEN AddMember(r, m) ELSE r

\* The body of the loop over s.members: result.Add(member) under the
\* operation's test of other.members[member].  result is the call's own
\* set until it is returned, so its lock is never contended.
LoopBody(op, r, m, other) ==
  CASE op = "Intersect" -> IF ContainsMember(other, m) THEN AddMember(r, m) ELSE r
    [] op = "Union" -> AddMember(r, m)
    [] op = "Difference" -> IF ~ContainsMember(other, m) THEN AddMember(r, m) ELSE r

\* One iteration of `for member := range s.members`.
BinLoop1(t) ==
  /\ pc[t] = "loop1"
  /\ \E m \in members[call[t].s] \ seen[t] :
       /\ res' = [res EXCEPT ![t].set = LoopBody(call[t].op, @, m, members[call[t].o])]
       /\ seen' = [seen EXCEPT ![t] = @ \cup {m}]
  /\ UNCHANGED <<queueVars, algVars, seqVars, members, rheld, wowner, wheld, pc, call, pre>>

\* The loop over s.members ends; Union goes on to range over other.members.
BinLoop1End(t) ==
  /\ pc[t] = "loop1"
  /\ members[call[t].s] \ seen[t] = {}
  /\ pc' = [pc EXCEPT ![t] = IF call[t].op = "Union" THEN "loop2" ELSE "bret2"]
  /\ seen' = [seen EXCEPT ![t] = {}]
  /\ UNCHANGED <<queueVars, algVars, seqVars, members, rheld, wowner, wheld, call, res, pre>>

\* One iteration of Union's `for member := range other.members`.
BinLoop2(t) ==
  /\ pc[t] = "loop2"
  /\ \E m \in members[call[t].o] \ seen[t] :
       /\ res' = [res EXCEPT ![t].set = AddMember(@, m)]
       /\ seen' = [seen EXCEPT ![t] = @ \cup {m}]
  /\ UNCHANGED <<queueVars, algVars, seqVars, members, rheld, wowner, wheld, pc, call, pre>>

BinLoop2End(t) ==
  /\ pc[t] = "loop2"
  /\ members[call[t].o] \ seen[t] = {}
  /\ pc' = [pc EXCEPT ![t] = "bret2"]
  /\ seen' = [seen EXCEPT ![t] = {}]
  /\ UNCHANGED <<queueVars, algVars, seqVars, members, rheld, wowner, wheld, call, res, pre>>

\* Mutant of BinUnlockOther: `defer other.mu.RUnlock()` is missing.
BinUnlockOtherMissing(t) ==
  /\ pc[t] = "bret2"
  /\ pc' = [pc EXCEPT ![t] = "bret1"]
  /\ UNCHANGED <<queueVars, algVars, seqVars, members, rheld, wowner, wheld, call, seen, res, pre>>

\* The deferred other.mu.RUnlock() (deferred last, run first).
BinUnlockOther(t) ==
  /\ pc[t] = "bret2"
  /\ RUnlock(call[t].o, t)
  /\ pc' = [pc EXCEPT ![t] = "bret1"]
  /\ UNCHANGED <<queueVars, algVars, seqVars, members, wowner, wheld, call, seen, res, pre>>

\* The deferred s.mu.RUnlock(), and the return of result.
BinReturn(t) ==
  /\ pc[t] = "bret1"
  /\ RUnlock(call[t].s, t)
  /\ pc' = [pc EXCEPT ![t] = "idle"]
  /\ call' = [call EXCEPT ![t] = NoCall]
  /\ res' = [res EXCEPT ![t] = NoRes]
  /\ UNCHANGED <<queueVars, algVars, seqVars, members, wowner, wheld, seen, pre>>

\* ------------------------------------------------------------------ Next
\* A goroutine that is in no call makes one of the calls of its menu.
Start(t, menu) ==
  \/ \E op \in menu \cap {"Add", "Remove"}, s \in Sets, x \in ConcElem : WriteCall(t, op, s, x)
  \/ \E s \in Sets : "Clear" \in menu /\ WriteCall(t, "Clear", s, 0)
  \/ \E s \in Sets, x \in ConcElem : "Contains" \in menu /\ ReadCall(t, "Contains", s, x)
  \/ \E op \in menu \cap {"Size", "Members"}, s \in Sets : ReadCall(t, op, s, 0)
  \/ \E op \in menu \cap BinOps, s \in Sets, o \in Sets : BinCall(t, op, s, o)

ConcStep(t) ==
  \/ WriteAcquire(t)
  \/ WriteBody(t)
  \/ WriteReturn(t)
  \/ ReadBody(t)
  \/ MembersLoop(t)
  \/ MembersLoopEnd(t)
  \/ ReadReturn(t)
  \/ BinLockOther(t)
  \/ BinLoop1(t)
  \/ BinLoop1End(t)
  \/ BinLoop2(t)
  \/ BinLoop2End(t)
  \/ BinUnlockOther(t)
  \/ BinReturn(t)

ConcNext == \E t \in Threads : Start(t, ConcMenu(t)) \/ ConcStep(t)

ConcSpec == ConcInit /\ [][ConcNext]_vars

DeadlockNext == \E t \in Threads : Start(t, DeadlockMenu(t)) \/ ConcStep(t)

DeadlockSpec == ConcInit /\ [][DeadlockNext]_vars

\* ------------------------------------------------- the sequential caller
\* The orders in which a range loop may visit the keys of a map.
MapOrders(m) ==
  {q \in [1..Cardinality(m) -> m] : \A i, j \in 1..Cardinality(m) : i # j => q[i] # q[j]}

\* `for member := range s.members { members = append(members, member) }`.
RECURSIVE RangeAppend(_, _)
RangeAppend(order, slice) ==
  IF order = <<>> THEN slice
  ELSE RangeAppend(Tail(order), Append(slice, Head(order)))

\* The order one range loop over m takes.  AlgSpec follows a single order
\* for each map (the loops build a Set); ConcSpec and SeqSpec take them all.
RangeOrder(m) == CHOOSE q \in MapOrders(m) : TRUE

\* Members, for the order its range loop takes.
MembersOf(m, order) == RangeAppend(order, MakeSlice(SizeOf(m)))

\* `for member := range s.members { ... result.Add(member) ... }`.
RECURSIVE RangeLoop(_, _, _, _)
RangeLoop(op, order, other, r) ==
  IF order = <<>> THEN r
  ELSE RangeLoop(op, Tail(order), other, LoopBody(op, r, Head(order), other))

\* Mutant of BinOp: Union without its loop over other.members.
BinOpOneLoop(op, result, a, b, order1, order2) == RangeLoop(op, order1, b, result)

\* The loops of Intersect, Union and Difference over the contents a of s
\* and b of other, into result.
BinOp(op, result, a, b, order1, order2) ==
  LET r1 == RangeLoop(op, order1, b, result)
  IN IF op = "Union" THEN RangeLoop(op, order2, a, r1) ELSE r1

\* Mutant of NewResult: `result := s` where the code has NewSet[T]().
NewResultAliased(r, sObj, m) == [obj |-> sObj, contents |-> m[sObj]]

\* result := NewSet[T](): a new, empty object, the one the caller's
\* variable r will point to.
NewResult(r, sObj, m) == [obj |-> IF r = "r1" THEN "R1" ELSE "R2", contents |-> NewSet]

\* r := s.op(o), the whole call.
AlgBinary(op, s, o, r) ==
  /\ LET result == NewResult(r, ref[s], members)
     IN /\ members' = [members EXCEPT ![result.obj] =
                         BinOp(op, result.contents, members[ref[s]], members[ref[o]],
                               RangeOrder(members[ref[s]]), RangeOrder(members[ref[o]]))]
        /\ ref' = [ref EXCEPT ![r] = result.obj]
  /\ origin' = [origin EXCEPT ![r] = [op |-> op, s |-> s, o |-> o]]
  /\ via' = "result"
  /\ UNCHANGED <<queueVars, concVars, seqVars>>

\* v.Add(x), v.Remove(x) or v.Clear() on any Set the caller holds.
AlgWrite(op, v, x) ==
  /\ ref[v] # None
  /\ members' = [members EXCEPT ![ref[v]] = WriteEffect(op, @, x)]
  /\ origin' = [r \in ResultVars |->
                  IF members' # members /\ v \in {r, origin[r].s, origin[r].o}
                  THEN NoOrigin ELSE origin[r]]
  /\ via' = IF v \in OperandVars THEN "operand" ELSE "result"
  /\ UNCHANGED <<queueVars, ref, concVars, seqVars>>

AlgInit ==
  /\ members = [o \in Objs |-> NewSet]
  /\ CallerInit
  /\ IdleInit
  /\ NewQueue("int")

AlgNext ==
  \/ \E op \in BinOps, s \in OperandVars, o \in OperandVars, r \in ResultVars :
       AlgBinary(op, s, o, r)
  \/ \E op \in {"Add", "Remove"}, v \in OperandVars \cup ResultVars, x \in AlgElem :
       AlgWrite(op, v, x)
  \/ \E v \in OperandVars \cup ResultVars : AlgWrite("Clear", v, 0)

AlgSpec == AlgInit /\ [][AlgNext]_vars

\* One unary call on the Set A, and what the caller remembers of it.
Called(op, x) ==
  /\ repeated' = (last.op = op /\ last.x = x)
  /\ found' = members["A"]
  /\ prev' = [op |-> last.op, found |-> found]
  /\ UNCHANGED <<queueVars, concVars, algVars>>

SeqAdd(x) ==
  /\ x \in members["A"] \/ nAdded < MaxAdds
  /\ members' = [members EXCEPT !["A"] = AddMember(@, x)]
  /\ last' = [NoLast EXCEPT !.op = "Add", !.x = x]
  /\ added' = added \cup {x}
  /\ nAdded' = IF x \in members["A"] THEN nAdded ELSE nAdded + 1
  /\ UNCHANGED <<removed, nRemoved>>
  /\ Called("Add", x)

SeqRemove(x) ==
  /\ members' = [members EXCEPT !["A"] = RemoveMember(@, x)]
  /\ last' = [NoLast EXCEPT !.op = "Remove", !.x = x]
  /\ removed' = IF x \in members["A"] THEN removed \cup {x} ELSE removed
  /\ nRemoved' = IF x \in members["A"] THEN nRemoved + 1 ELSE nRemoved
  /\ UNCHANGED <<added, nAdded>>
  /\ Called("Remove", x)

SeqClear ==
  /\ members' = [members EXCEPT !["A"] = ClearMembers(@)]
  /\ last' = [NoLast EXCEPT !.op = "Clear"]
  /\ added' = {}
  /\ removed' = {}
  /\ nAdded' = 0
  /\ nRemoved' = 0
  /\ Called("Clear", 0)

SeqContains(x) ==
  /\ last' = [NoLast EXCEPT !.op = "Contains", !.x = x,
                            !.exists = ContainsMember(members["A"], x)]
  /\ UNCHANGED <<members, added, removed, nAdded, nRemoved>>
  /\ Called("Contains", x)

SeqSize ==
  /\ last' = [NoLast EXCEPT !.op = "Size", !.size = SizeOf(members["A"])]
  /\ UNCHANGED <<members, added, removed, nAdded, nRemoved>>
  /\ Called("Size", 0)

SeqMembers ==
  /\ \E order \in MapOrders(members["A"]) :
       last' = [NoLast EXCEPT !.op = "Members", !.slice = MembersOf(members["A"], order)]
  /\ UNCHANGED <<members, added, removed, nAdded, nRemoved>>
  /\ Called("Members", 0)

SeqInit ==
  /\ members = [o \in Objs |-> NewSet]
  /\ CallerInit
  /\ IdleInit
  /\ NewQueue("int")

SeqNext ==
  \/ \E x \in Elem : SeqAdd(x)
  \/ \E x \in Elem : SeqRemove(x)
  \/ SeqClear
  \/ \E x \in Elem : SeqContains(x)
  \/ SeqSize
  \/ SeqMembers

SeqSpec == SeqInit /\ [][SeqNext]_vars

\* -------------------------------------------------------------- the Queue
\* len(q.elements)
Length(sl) == Len(sl.vals)

\* len(q.elements) == 0
IsEmpty(sl) == Len(sl.vals) = 0

\* Mutant of ScanFinds: the element is also compared with the values
\* Dequeue has returned.
ScanFindsInHistory(f, element, vals) ==
  \/ \E i \in 1..Len(deq) : Equals(f, element, deq[i])
  \/ \E i \in 1..Len(vals) : Equals(f, element, vals[i])

\* `for _, e := range q.elements { if q.equalsFunc(element, e) { return } }`:
\* whether the scan, front to back, returns from Enqueue.
RECURSIVE ScanFinds(_, _, _)
ScanFinds(f, element, vals) ==
  IF vals = <<>> THEN FALSE
  ELSE IF Equals(f, element, Head(vals)) THEN TRUE
  ELSE ScanFinds(f, element, Tail(vals))

\* Mutant of EnqueueElements: the new element takes the place of the
\* equivalent one it finds.
EnqueueElementsSwapped(prevent, f, sl, element) ==
  IF prevent /\ ScanFinds(f, element, sl.vals)
  THEN [sl EXCEPT !.vals = [i \in 1..Len(@) |->
                              IF Equals(f, element, @[i]) THEN element ELSE @[i]]]
  ELSE AppendSlice(sl, element)

\* q.elements after Enqueue(element).
EnqueueElements(prevent, f, sl, element) ==
  IF prevent /\ ScanFinds(f, element, sl.vals)
  THEN sl
  ELSE AppendSlice(sl, element)

\* Mutant of DequeueElements: the last element is cut off like the others.
DequeueElementsTruncated(sl) ==
  IF IsEmpty(sl) THEN sl ELSE SliceFrom1(sl)

\* q.elements after Dequeue(): as it was if the queue is empty, nil if one
\* element was left, q.elements[1:] otherwise.
DequeueElements(sl) ==
  IF IsEmpty(sl) THEN sl
  ELSE IF Length(sl) = 1 THEN NilSlice
  ELSE SliceFrom1(sl)

\* Mutant of Front: q.elements[len(q.elements)-1].
Back(sl) ==
  IF IsEmpty(sl) THEN [val |-> ZeroValue, ok |-> FALSE]
  ELSE [val |-> sl.vals[Len(sl.vals)], ok |-> TRUE]

\* What Dequeue and Peek return: (empty, false) of an empty queue,
\* (q.elements[0], true) otherwise.
Front(sl) ==
  IF IsEmpty(sl) THEN [val |-> ZeroValue, ok |-> FALSE]
  ELSE [val |-> sl.vals[1], ok |-> TRUE]

\* The record the caller keeps of a call of op on the queue as it is.
QCall(op) == [NoQLast EXCEPT !.op = op, !.before = Length(elements)]

QEnqueue(x) ==
  /\ Len(enq) < MaxEnq
  /\ elements' = EnqueueElements(preventDuplicates, equalsFunc, elements, x)
  /\ enq' = Append(enq, x)
  /\ qlast' = [QCall("Enqueue") EXCEPT !.x = x]
  /\ UNCHANGED <<preventDuplicates, equalsFunc, elemType, deq>>
  /\ UNCHANGED <<members, concVars, algVars, seqVars>>

QDequeue ==
  /\ elements' = DequeueElements(elements)
  /\ deq' = IF Front(elements).ok THEN Append(deq, Front(elements).val) ELSE deq
  /\ qlast' = [QCall("Dequeue") EXCEPT !.val = Front(elements).val,
                              !.ok = Front(elements).ok]
  /\ UNCHANGED <<preventDuplicates, equalsFunc, elemType, enq>>
  /\ UNCHANGED <<members, concVars, algVars, seqVars>>

QPeek ==
  /\ qlast' = [QCall("Peek") EXCEPT !.val = Front(elements).val,
                              !.ok = Front(elements).ok]
  /\ UNCHANGED <<elements, preventDuplicates, equalsFunc, elemType, enq, deq>>
  /\ UNCHANGED <<members, concVars, algVars, seqVars>>

QLength ==
  /\ qlast' = [QCall("Length") EXCEPT !.n = Length(elements)]
  /\ UNCHANGED <<elements, preventDuplicates, equalsFunc, elemType, enq, deq>>
  /\ UNCHANGED <<members, concVars, algVars, seqVars>>

QIsEmpty ==
  /\ qlast' = [QCall("IsEmpty") EXCEPT !.ok = IsEmpty(elements)]
  /\ UNCHANGED <<elements, preventDuplicates, equalsFunc, elemType, enq, deq>>
  /\ UNCHANGED <<members, concVars, algVars, seqVars>>

\* PreventDuplicates(f): an error and nothing else if the zero value of T
\* is not comparable; the flag and the function are set otherwise.
QPreventDuplicates(f) ==
  /\ IF ~Comparable(elemType)
     THEN /\ qlast' = [QCall("PreventDuplicates") EXCEPT !.f = f, !.err = TRUE]
          /\ UNCHANGED <<preventDuplicates, equalsFunc>>
     ELSE /\ preventDuplicates' = TRUE
          /\ equalsFunc' = f
          /\ qlast' = [QCall("PreventDuplicates") EXCEPT !.f = f]
  /\ UNCHANGED <<elements, elemType, enq, deq>>
  /\ UNCHANGED <<members, concVars, algVars, seqVars>>

QueueInit ==
  /\ members = [o \in Objs |-> NewSet]
  /\ CallerInit
  /\ IdleInit
  /\ \E T \in ElemTypes : NewQueue(T)

QueueNext ==
  \/ \E x \in QElem : QEnqueue(x)
  \/ QDequeue
  \/ QPeek
  \/ QLength
  \/ QIsEmpty
  \/ \E f \in EqualsFuncs : QPreventDuplicates(f)

QueueSpec == QueueInit /\ [][QueueNext]_vars

\* ---------------------------------------------------------------- claims
InCall(t) == pc[t] # "idle"

\* s.mu is locked by t, for writing or for reading.
InsideWrite(t, s) == pc[t] \in {"wbody", "wret"} /\ call[t].s = s

InsideRead(t, s) ==
  \/ pc[t] \in {"rbody", "mloop", "rret"} /\ call[t].s = s
  \/ pc[t] \in {"rlock2", "loop1", "loop2", "bret2", "bret1"} /\ call[t].s = s
  \/ pc[t] \in {"loop1", "loop2", "bret2"} /\ call[t].o = s

\* A circular wait: every goroutine of D waits for a lock that another
\* goroutine of D keeps: a Lock() for a reader that is inside, or the
\* RLock() of other for the writer whose Lock() is pending.
CircularWait(D) ==
  /\ D # {}
  /\ \A t \in D :
       \/ /\ pc[t] = "wwait"
          /\ \E u \in D : rheld[call[t].s][u] > 0
       \/ /\ pc[t] = "rlock2"
          /\ wowner[call[t].o] \in D

\* C1: in every interleaving of the Set's operations on A and B with
\* distinct operands (A.Intersect(B) beside B.Intersect(A) while other
\* goroutines call Add on A and on B), no set of calls waits in a circle:
\* every call can still return.
C1_NoDeadlock ==
  (\A t \in Threads : call[t].op \in BinOps => call[t].s # call[t].o)
    => ~(\E D \in SUBSET Threads : CircularWait(D))

\* C2: a goroutine is inside the body of Add, Remove or Clear of a Set only
\* when no other goroutine is inside the body of any operation on that Set
\* (readers may share it, never with a writer).
C2_WriterExcludesAll ==
  \A s \in Sets : \A t \in Threads :
    InsideWrite(t, s) =>
      \A u \in Threads \ {t} : ~InsideWrite(u, s) /\ ~InsideRead(u, s)

\* Two readers are inside the same Set at once while a writer's Lock() on
\* it is pending.
C2_Witness ==
  \E s \in Sets : \E t, u, w \in Threads :
    /\ t # u
    /\ InsideRead(t, s) /\ InsideRead(u, s)
    /\ pc[w] = "wwait" /\ call[w].s = s

\* What each binary operation is to return for the contents a and b.
BinResult(op, a, b) ==
  CASE op = "Intersect" -> a \cap b
    [] op = "Union" -> a \cup b
    [] op = "Difference" -> a \ b

\* C3: when the loops of Intersect, Union or Difference are done and the
\* deferred unlocks have not yet run, result is the operation applied to the
\* contents both operands have at that one instant.
C3_ConsistentSnapshotPair ==
  \A t \in Threads :
    pc[t] = "bret2" =>
      res[t].set = BinResult(call[t].op, members[call[t].s], members[call[t].o])

\* A binary operation on two different Sets has built a non-empty result
\* while a writer's Lock() on one of its operands is pending.
C3_Witness ==
  \E t, w \in Threads :
    /\ pc[t] = "bret2"
    /\ call[t].s # call[t].o
    /\ res[t].set # {}
    /\ pc[w] = "wwait" /\ call[w].s \in {call[t].s, call[t].o}

SeqRange(q) == {q[i] : i \in 1..Len(q)}

\* C4: each call takes effect at one instant inside it.  While a mutator
\* holds the lock the contents are what it found, then exactly its own
\* effect on them; what Contains, Size and Members are about to return is
\* true of the contents at the instant of the return, Members without a
\* missing, extra or repeated value.
C4_Linearizable ==
  \A t \in Threads :
    /\ pc[t] = "wbody" => members[call[t].s] = pre[t]
    /\ pc[t] = "wret" =>
         members[call[t].s] =
           CASE call[t].op = "Add" -> pre[t] \cup {call[t].x}
             [] call[t].op = "Remove" -> pre[t] \ {call[t].x}
             [] call[t].op = "Clear" -> {}
    /\ (pc[t] = "rret" /\ call[t].op = "Contains") =>
         res[t].exists = (call[t].x \in members[call[t].s])
    /\ (pc[t] = "rret" /\ call[t].op = "Size") =>
         res[t].size = Cardinality(members[call[t].s])
    /\ (pc[t] = "rret" /\ call[t].op = "Members") =>
         /\ SeqRange(res[t].slice) = members[call[t].s]
         /\ Len(res[t].slice) = Cardinality(members[call[t].s])

\* Members is about to return every element of a Set while a Remove of the
\* same Set waits for the lock.
C4_Witness ==
  \E t, w \in Threads :
    /\ pc[t] = "rret" /\ call[t].op = "Members"
    /\ SeqRange(res[t].slice) = ConcElem
    /\ pc[w] = "wwait" /\ call[w].op = "Remove" /\ call[w].s = call[t].s

\* The operands of the call that made r's object, as they are now.
OriginSelf(r) == members[ref[origin[r].s]]

OriginOther(r) == members[ref[origin[r].o]]

\* C5: the Set that Intersect, Union or Difference returned holds exactly
\* the elements in both operands, in either operand, or in self and not in
\* other.
C5_ExactElements ==
  \A r \in ResultVars :
    origin[r] # NoOrigin =>
      members[ref[r]] = BinResult(origin[r].op, OriginSelf(r), OriginOther(r))

\* r1 holds a.Intersect(b) and r2 a.Union(b) of two Sets that overlap and
\* of which neither contains the other... as far as the domain allows:
\* a has an element b lacks, and they share one.
C5_Witness ==
  /\ origin["r1"] = [op |-> "Intersect", s |-> "a", o |-> "b"]
  /\ origin["r2"] = [op |-> "Union", s |-> "a", o |-> "b"]
  /\ members["A"] \cap members["B"] # {}
  /\ members["A"] \ members["B"] # {}

\* len(s.Members()).
NumMembers(m) == Len(MembersOf(m, RangeOrder(m)))

\* C6: the number of members of s.Intersect(o) plus the number of members
\* of s.Difference(o) is the number of members of s.
C6_PartitionLaw ==
  \A r, q \in ResultVars :
    ( /\ origin[r].op = "Intersect"
      /\ origin[q].op = "Difference"
      /\ origin[r].s = origin[q].s
      /\ origin[r].o = origin[q].o )
    => NumMembers(members[ref[r]]) + NumMembers(members[ref[q]]) = NumMembers(OriginSelf(r))

\* The caller holds a.Intersect(b) and a.Difference(b), both non-empty.
C6_Witness ==
  \E r, q \in ResultVars :
    /\ origin[r] = [op |-> "Intersect", s |-> "a", o |-> "b"]
    /\ origin[q] = [op |-> "Difference", s |-> "a", o |-> "b"]
    /\ members[ref[r]] # {}
    /\ members[ref[q]] # {}

\* C7: a call on or into a result variable (the binary operation itself, or
\* a later Add, Remove or Clear of the returned Set) leaves the contents of
\* both operands as they were, and an Add, Remove or Clear of an operand
\* leaves every returned Set as it was.
C7_OperandsAndResultsApart ==
  [][ /\ via' = "result" =>
           \A v \in OperandVars : members'[ref[v]] = members[ref[v]]
      /\ via' = "operand" =>
           \A r \in ResultVars : ref[r] # None => members'[ref[r]] = members[ref[r]]
    ]_vars

\* An operand was changed after a binary operation returned, and the
\* returned, non-empty Set is still held.
C7_Witness ==
  /\ via = "operand"
  /\ \E r \in ResultVars :
       /\ ref[r] # None
       /\ origin[r] = NoOrigin
       /\ members[ref[r]] # {}

\* C8 as stated: Size() is the number of distinct elements added minus the
\* number of distinct elements removed while present, since the last Clear.
C8_SizeIsDistinctAddedMinusRemoved ==
  SizeOf(members["A"]) = Cardinality(added) - Cardinality(removed)

\* C8 as amended: Size() is the number of Add calls that found their
\* element absent minus the number of Remove calls that found theirs
\* present, since the last Clear.
C8_SizeIsEffectiveAddsMinusRemoves ==
  /\ SizeOf(members["A"]) = nAdded - nRemoved
  /\ last.op = "Size" => last.size = nAdded - nRemoved

\* An element was added, removed and added again, and Size() was called.
C8_Witness ==
  /\ last.op = "Size"
  /\ nRemoved >= 1
  /\ nAdded > Cardinality(added)
  /\ members["A"] # {}

\* C9: an Add(x) that follows an Add(x) leaves the contents, Size() and
\* Contains(x) as the first left them, and a Remove(x) of an absent x
\* leaves the Set as it was.
C9_AddIdempotent ==
  [][ /\ (repeated' /\ last'.op = "Add") =>
           /\ members' = members
           /\ SizeOf(members'["A"]) = SizeOf(members["A"])
           /\ ContainsMember(members'["A"], last'.x)
           /\ ContainsMember(members["A"], last'.x)
      /\ (last'.op = "Remove" /\ ~ContainsMember(members["A"], last'.x)) =>
           members' = members
    ]_vars

\* Add(x) was called twice in a row on a Set that holds another element.
C9_Witness ==
  /\ repeated
  /\ last.op = "Add"
  /\ SizeOf(members["A"]) >= 2

\* C10: Members() returns a slice without a repeated value, as long as
\* Size() says, with exactly the values Contains holds of, and leaves the
\* Set as it was.
C10_MembersExact ==
  [][ last'.op = "Members" =>
        /\ members' = members
        /\ \A i, j \in 1..Len(last'.slice) : i # j => last'.slice[i] # last'.slice[j]
        /\ Len(last'.slice) = SizeOf(members'["A"])
        /\ SeqRange(last'.slice) = {x \in Elem : ContainsMember(members'["A"], x)}
    ]_vars

\* Members() returned two or more elements, not in ascending order.
C10_Witness ==
  /\ last.op = "Members"
  /\ Len(last.slice) >= 2
  /\ last.slice[1] > last.slice[2]

\* C11: after Clear() the Set is empty, Size() being 0 and Contains(x) false
\* for every x, whatever it held before; a Size() or Contains(x) that
\* follows the Clear() returns 0 or false, and an Add(x) that follows it
\* gives a Set of Size() 1 that contains x.
C11_ClearEmptiesAndStaysUsable ==
  /\ last.op = "Clear" =>
       /\ SizeOf(members["A"]) = 0
       /\ \A x \in Elem : ~ContainsMember(members["A"], x)
  /\ (prev.op = "Clear" /\ last.op = "Size") => last.size = 0
  /\ (prev.op = "Clear" /\ last.op = "Contains") => last.exists = FALSE
  /\ (prev.op = "Clear" /\ last.op = "Add") =>
       /\ SizeOf(members["A"]) = 1
       /\ ContainsMember(members["A"], last.x)

\* Clear() was called on a Set of two or more elements, one of them x, and
\* Add(x) was the next call.
C11_Witness ==
  /\ last.op = "Add"
  /\ prev.op = "Clear"
  /\ Cardinality(prev.found) >= 2
  /\ last.x \in prev.found

\* C12: on a Queue without duplicate suppression the k-th Dequeue that
\* returns true returns the k-th value Enqueue was called with, and a
\* Dequeue returns false only when every enqueued value has been returned;
\* so n Enqueue calls followed by n Dequeue calls return v1, ..., vn in
\* that order, each with true.
C12_FifoOrder ==
  ~preventDuplicates =>
    /\ Len(deq) <= Len(enq)
    /\ \A k \in 1..Len(deq) : deq[k] = enq[k]
    /\ (qlast.op = "Dequeue" /\ qlast.ok) => qlast.val = enq[Len(deq)]
    /\ (qlast.op = "Dequeue" /\ ~qlast.ok) => Len(deq) = Len(enq)

\* Three different values were enqueued, and three Dequeue calls have
\* returned them.
C12_Witness ==
  /\ ~preventDuplicates
  /\ qlast.op = "Dequeue"
  /\ Len(deq) = 3
  /\ deq[1] # deq[2] /\ deq[2] # deq[3] /\ deq[1] # deq[3]

\* C13: Dequeue() and Peek() on an empty queue return (zero value, false)
\* and leave q.elements as it was; Peek() on a non-empty queue returns the
\* front element with true; Peek() never changes q.elements.
C13_EmptyAndPeek ==
  [][ /\ (qlast'.op \in {"Dequeue", "Peek"} /\ Len(elements.vals) = 0) =>
           /\ qlast'.val = 0
           /\ qlast'.ok = FALSE
           /\ elements' = elements
      /\ (qlast'.op = "Peek" /\ Len(elements.vals) > 0) =>
           /\ qlast'.val = elements.vals[1]
           /\ qlast'.ok = TRUE
      /\ qlast'.op = "Peek" =>
           /\ Len(elements'.vals) = Len(elements.vals)
           /\ elements'.vals = elements.vals
    ]_vars

\* Peek() returned the front of a queue whose front and back differ, after
\* a Dequeue.
C13_Witness ==
  /\ qlast.op = "Peek"
  /\ qlast.ok
  /\ Len(deq) >= 1
  /\ Len(elements.vals) >= 2
  /\ elements.vals[1] # elements.vals[Len(elements.vals)]

\* Two elements of the queue are equivalent under f.
EquivalentPair(f, vals) ==
  \E i, j \in 1..Len(vals) : i # j /\ Equals(f, vals[i], vals[j])

\* C14: while duplicate suppression is enabled, no two elements of the
\* queue are equivalent under the supplied function, whatever sequence of
\* Enqueue, Dequeue and PreventDuplicates calls led there.
C14_NoEquivalentPair ==
  preventDuplicates => ~EquivalentPair(equalsFunc, elements.vals)

\* Some element of the queue is equivalent to e under f.
HasEquivalent(f, e, vals) == \E i \in 1..Len(vals) : Equals(f, vals[i], e)

\* C15: with duplicate suppression active, Enqueue(e) leaves q.elements as
\* it was when some element is equivalent to e, and appends e at the back
\* when none is.
C15_EnqueueSuppressed ==
  [][ (qlast'.op = "Enqueue" /\ preventDuplicates) =>
        IF HasEquivalent(equalsFunc, qlast'.x, elements.vals)
        THEN /\ elements'.vals = elements.vals
             /\ Len(elements'.vals) = Len(elements.vals)
        ELSE elements'.vals = Append(elements.vals, qlast'.x)
    ]_vars

\* Enqueue(e) was discarded for an equivalent element that is not e: the
\* queue holds no e and is as long as the call found it.
C15_Witness ==
  /\ qlast.op = "Enqueue"
  /\ preventDuplicates
  /\ qlast.before = Len(elements.vals)
  /\ HasEquivalent(equalsFunc, qlast.x, elements.vals)
  /\ \A i \in 1..Len(elements.vals) : elements.vals[i] # qlast.x

\* The element types that cannot be compared, as C16 has them: the test's
\* any, and the slice.
CannotBeCompared(T) == T \in {"any", "[]int"}

\* C16: PreventDuplicates returns an error exactly when the element type
\* cannot be compared (any, in the test), and then leaves the flag, the
\* function and the elements as they were.
C16_ErrorIffNotComparable ==
  [][ qlast'.op = "PreventDuplicates" =>
        /\ qlast'.err = CannotBeCompared(elemType)
        /\ qlast'.err =>
             /\ preventDuplicates' = preventDuplicates
             /\ equalsFunc' = equalsFunc
             /\ elements' = elements
    ]_vars

\* C18: a Dequeue that returns the last element leaves q.elements nil,
\* with no backing array and nothing kept of the removed elements; the
\* calls that follow it find an empty queue (Length() 0, IsEmpty() true,
\* Dequeue() (zero value, false)) and an Enqueue(v) makes v its one element.
C18_DrainedQueueReset ==
  [][ /\ (qlast'.op = "Dequeue" /\ Len(elements.vals) = 1) =>
           /\ elements'.nil
           /\ elements'.vals = <<>>
           /\ elements'.cap = 0
           /\ elements'.held = 0
      /\ (qlast.op = "Dequeue" /\ qlast.before = 1) =>
           /\ qlast'.op = "Length" => qlast'.n = 0
           /\ qlast'.op = "IsEmpty" => qlast'.ok = TRUE
           /\ qlast'.op = "Dequeue" => (qlast'.val = 0 /\ qlast'.ok = FALSE)
           /\ qlast'.op = "Enqueue" => elements'.vals = <<qlast'.x>>
    ]_vars

\* Two or more elements went through the queue, Dequeue returned the last
\* of them, and the Enqueue that followed has made a queue of one element.
C18_Witness ==
  /\ qlast.op = "Enqueue"
  /\ qlast.before = 0
  /\ Len(deq) >= 2
  /\ Len(elements.vals) = 1
  /\ elements.held = 0

\* C20: with duplicate suppression active, Enqueue(e) of an e equivalent
\* to a value that Dequeue has returned, and to no element of the queue,
\* appends e: Length() grows by 1 and e is at the back.
C20_ComparedWithCurrentOnly ==
  [][ ( /\ qlast'.op = "Enqueue"
        /\ preventDuplicates
        /\ HasEquivalent(equalsFunc, qlast'.x, deq)
        /\ ~HasEquivalent(equalsFunc, qlast'.x, elements.vals) )
      => /\ Len(elements'.vals) = Len(elements.vals) + 1
         /\ elements'.vals[Len(elements'.vals)] = qlast'.x
    ]_vars

\* With suppression on, a value was enqueued, dequeued and enqueued again
\* behind another element: the last Enqueue made the queue longer.
C20_Witness ==
  /\ qlast.op = "Enqueue"
  /\ preventDuplicates
  /\ equalsFunc = "sameEmail"
  /\ HasEquivalent(equalsFunc, qlast.x, deq)
  /\ Len(elements.vals) = qlast.before + 1
  /\ qlast.before >= 1
  /\ elements.vals[Len(elements.vals)] = qlast.x

\* A binary operation of t with the same Set as both operands.
SelfOperand(t) == call[t].op \in BinOps /\ call[t].s = call[t].o

\* t's s.op(s) holds the read lock of s and waits at its second RLock()
\* behind a writer whose Lock() is pending.
SelfBlocked(t) ==
  /\ SelfOperand(t)
  /\ pc[t] = "rlock2"
  /\ wowner[call[t].s] # None

\* C17 as stated: a call of Intersect, Union or Difference with the same
\* Set as both operands never returns, whatever the other goroutines do.
C17_SelfOperandNeverReturns ==
  [][ \A t \in Threads : SelfOperand(t) => pc'[t] # "idle" ]_vars

\* C17 as amended: s.op(s) deadlocks when a writer's Lock() on s is pending
\* at the call's second RLock(): from then on the call stays at that
\* RLock() and the writer in its Lock(), each waiting for the other.  When
\* no Lock() on s is pending there the second RLock() is granted, and a
\* call that is past it can always take its next step.
C17_SelfOperandDeadlocksBehindWriter ==
  [][ \A t \in Threads :
        /\ SelfBlocked(t) =>
             /\ pc'[t] = "rlock2"
             /\ call'[t] = call[t]
             /\ wowner'[call[t].s] = wowner[call[t].s]
             /\ pc[wowner[call[t].s]] = "wwait"
             /\ pc'[wowner[call[t].s]] = "wwait"
        /\ (SelfOperand(t) /\ pc[t] = "rlock2" /\ ~SelfBlocked(t)) =>
             ENABLED BinLockOther(t)
        /\ (SelfOperand(t) /\ pc[t] \in {"loop1", "loop2", "bret2", "bret1"}) =>
             ENABLED ConcStep(t)
    ]_vars

\* s.op(s) holds the read lock of s and waits at its second RLock() while
\* an Add on s waits in Lock() for that read lock.
C17_Witness ==
  \E t, w \in Threads :
    /\ SelfBlocked(t)
    /\ wowner[call[t].s] = w
    /\ pc[w] = "wwait"
    /\ call[w].op = "Add"

\* The read locks of s.mu that t's call holds where it is: one from its
\* s.mu.RLock() until its return, one more from other.mu.RLock() until the
\* deferred other.mu.RUnlock().
ReadLocksDue(t, s) ==
  (IF /\ pc[t] \in {"rbody", "mloop", "rret", "rlock2", "loop1", "loop2", "bret2", "bret1"}
      /\ call[t].s = s
   THEN 1 ELSE 0)
  + (IF pc[t] \in {"loop1", "loop2", "bret2"} /\ call[t].o = s THEN 1 ELSE 0)

\* C19: a goroutine holds the read lock of a Set exactly while a call of
\* its own on that Set is between its RLock() and its return, a binary
\* operation the one of self from its first RLock() and the one of other
\* from its second; the write lock is pending or held only for a mutator
\* that has not returned; so a Set on which no call is in progress is
\* locked by nobody, in either mode.
C19_LocksReleasedBeforeReturn ==
  \A s \in Sets :
    /\ \A t \in Threads : rheld[s][t] = ReadLocksDue(t, s)
    /\ wowner[s] # None =>
         /\ pc[wowner[s]] \in {"wwait", "wbody", "wret"}
         /\ call[wowner[s]].s = s
    /\ wheld[s] => (wowner[s] # None /\ pc[wowner[s]] \in {"wbody", "wret"})
    /\ (\A t \in Threads : pc[t] = "idle" \/ s \notin {call[t].s, call[t].o}) =>
         /\ \A t \in Threads : rheld[s][t] = 0
         /\ wowner[s] = None
         /\ wheld[s] = FALSE

\* A binary operation on two different Sets has released other and still
\* holds self, and a mutator has taken the write lock of other since.
C19_Witness ==
  \E t \in Threads :
    /\ pc[t] = "bret1"
    /\ call[t].s # call[t].o
    /\ rheld[call[t].s][t] = 1
    /\ rheld[call[t].o][t] = 0
    /\ wheld[call[t].o]

====
